---- MODULE Spec2Model ----
(***************************************************************************)
(* Model of scripts/scan.py: a localhost port scanner.                     *)
(*                                                                         *)
(* Python strings are modelled as sequences of one-character strings, so   *)
(* that split(), int(), the regular expressions and the formatters are     *)
(* computed rather than assumed.  Python list indices are 0-based; the     *)
(* sequences here are 1-based.                                             *)
(***************************************************************************)
EXTENDS Integers, Sequences, FiniteSets, TLC

VARIABLES argv, system, pc, opts, entries, result, stdout, stderr, status,
          termination, calls, permuted, resultPermuted, resultTwice

vars == <<argv, system, pc, opts, entries, result, stdout, stderr, status,
          termination, calls, permuted, resultPermuted, resultTwice>>

\* ------------------------------------------------------------------ bounds
MaxArgs == 3
MaxLines == 2
MaxLen == 3

\* ------------------------------------------------------- string primitives
\* A Python string literal as a sequence of characters.
Chars(s) == [i \in 1..Len(s) |-> SubSeq(s, i, i)]

\* Optional values: None is the empty sequence, a value v is <<v>>.
None == <<>>

Some(v) == <<v>>

Digits == <<"0", "1", "2", "3", "4", "5", "6", "7", "8", "9">>

IsDigit(c) == \E d \in 1..10 : Digits[d] = c

DigitVal(c) == (CHOOSE d \in 1..10 : Digits[d] = c) - 1

RECURSIVE Find(_, _, _)
\* Index of the first occurrence of character c in s at or after k, or 0.
Find(s, c, k) ==
    IF k > Len(s) THEN 0 ELSE IF s[k] = c THEN k ELSE Find(s, c, k + 1)

RECURSIVE Split(_, _)
\* str.split(sep) for a one-character separator: always at least one part.
Split(s, sep) ==
    LET k == Find(s, sep, 1)
    IN  IF k = 0 THEN <<s>>
        ELSE <<SubSeq(s, 1, k - 1)>> \o Split(SubSeq(s, k + 1, Len(s)), sep)

RECURSIVE Strip(_)
\* str.strip() restricted to the blank character.
Strip(s) ==
    IF s = <<>> THEN s
    ELSE IF Head(s) = " " THEN Strip(Tail(s))
    ELSE IF s[Len(s)] = " " THEN Strip(SubSeq(s, 1, Len(s) - 1))
    ELSE s

\* Body of an integer literal once blanks and an optional sign are removed.
IntBody(s) ==
    LET t == Strip(s)
    IN  IF t # <<>> /\ (Head(t) = "+" \/ Head(t) = "-") THEN Tail(t) ELSE t

IntNegative(s) == LET t == Strip(s) IN t # <<>> /\ Head(t) = "-"

\* int(s) succeeds: digits, single underscores allowed between two digits.
IntOk(s) ==
    LET b == IntBody(s)
    IN  /\ b # <<>>
        /\ \A k \in 1..Len(b) :
              \/ IsDigit(b[k])
              \/ /\ b[k] = "_"
                 /\ k > 1 /\ k < Len(b)
                 /\ IsDigit(b[k - 1]) /\ IsDigit(b[k + 1])

RECURSIVE DigitsVal(_, _)
DigitsVal(b, acc) ==
    IF b = <<>> THEN acc
    ELSE IF Head(b) = "_" THEN DigitsVal(Tail(b), acc)
    ELSE DigitsVal(Tail(b), acc * 10 + DigitVal(Head(b)))

\* int(s) for a string on which IntOk holds (Python ints are unbounded).
IntVal(s) ==
    IF IntNegative(s) THEN 0 - DigitsVal(IntBody(s), 0)
    ELSE DigitsVal(IntBody(s), 0)

\* ------------------------------------------------------------ command line
HELP == Chars("--help")
COMMON == Chars("--common")
RANGE == Chars("--range")
FORMAT == Chars("--format")
TEXT == Chars("text")
JSON == Chars("json")

DefaultOpts == [format |-> TEXT, range_start |-> None, range_end |-> None]

\* Outcomes of parse_args: it returns opts, or leaves through sys.exit, or
\* an exception escapes it.
Returned(o) == [kind |-> "return", opts |-> o, code |-> 0,
                out |-> <<>>, err |-> <<>>]
Exited(code, out, err) == [kind |-> "sys.exit", opts |-> DefaultOpts,
                           code |-> code, out |-> out, err |-> err]
Raised(exc) == [kind |-> "uncaught", opts |-> DefaultOpts, code |-> 1,
                out |-> <<>>, err |-> <<<<"Traceback", exc>>>>]

usage == <<"Usage: run.sh [OPTIONS]">>

ParseRange(o, v) ==
    LET parts == Split(v, "-")
    IN  IF Len(parts) # 2
        THEN Exited(1, <<>>, <<"Error: --range format must be START-END">>)
        ELSE IF ~IntOk(parts[1]) \/ ~IntOk(parts[2])
        THEN Raised("ValueError")
        ELSE Returned([o EXCEPT !.range_start = Some(IntVal(parts[1])),
                                !.range_end = Some(IntVal(parts[2]))])

\* Variant: --help is recognised as the first argument only.
IsHelpFirstOnly(av, i) == i = 1 /\ av[i] = HELP

\* The test arg == "--help" on the argument at index i.
IsHelp(av, i) == av[i] = HELP

\* Variant: the message is printed without file=sys.stderr.
UnknownOptionToStdout(arg) == Exited(1, <<<<"Unknown option: ", arg>>>>, <<>>)

\* The final else branch: the message goes to sys.stderr, then sys.exit(1).
UnknownOption(arg) == Exited(1, <<>>, <<<<"Unknown option: ", arg>>>>)

RECURSIVE parse_loop(_, _, _)
\* The while loop of parse_args; i is the 1-based index of the next argument.
parse_loop(av, i, o) ==
    IF i > Len(av) THEN Returned(o)
    ELSE LET arg == av[i]
         IN  IF IsHelp(av, i) THEN Exited(0, usage, <<>>)
             ELSE IF arg = COMMON
             THEN parse_loop(av, i + 1,
                             [o EXCEPT !.range_start = Some(1),
                                       !.range_end = Some(1024)])
             ELSE IF arg = RANGE
             THEN IF i + 1 > Len(av)
                  THEN Exited(1, <<>>,
                              <<"Error: --range requires START-END argument">>)
                  ELSE LET r == ParseRange(o, av[i + 1])
                       IN  IF r.kind = "return" THEN parse_loop(av, i + 2, r.opts)
                           ELSE r
             ELSE IF arg = FORMAT
             THEN IF i + 1 > Len(av)
                  THEN Exited(1, <<>>,
                              <<"Error: --format requires text|json argument">>)
                  ELSE IF av[i + 1] # TEXT /\ av[i + 1] # JSON
                  THEN Exited(1, <<>>, <<"Error: --format must be text or json">>)
                  ELSE parse_loop(av, i + 2, [o EXCEPT !.format = av[i + 1]])
             ELSE UnknownOption(arg)

parse_args(av) == parse_loop(av, 1, DefaultOpts)

\* ------------------------------------------------------------- normalizer
Quote == "\""

\* line.split(): the maximal runs of non-blank characters.
SplitWs(line) == SelectSeq(Split(line, " "), LAMBDA part : part # <<>>)

IsBlank(line) == \A k \in 1..Len(line) : line[k] = " "

RECURSIVE StripLines(_)
\* result.stdout.strip() seen line by line: blank lines at either end go.
StripLines(ls) ==
    IF ls = <<>> THEN ls
    ELSE IF IsBlank(Head(ls)) THEN StripLines(Tail(ls))
    ELSE IF IsBlank(ls[Len(ls)]) THEN StripLines(SubSeq(ls, 1, Len(ls) - 1))
    ELSE ls

\* result.stdout.strip().splitlines()[1:]
DataLines(ls) ==
    LET t == StripLines(ls) IN IF t = <<>> THEN <<>> ELSE Tail(t)

\* re.search(r":(\d+)$", s): 0 when there is no match, otherwise the index
\* of the colon.
PortMatch(s) ==
    LET hits == {i \in 1..(Len(s) - 1) :
                    s[i] = ":" /\ \A k \in (i + 1)..Len(s) : IsDigit(s[k])}
    IN  IF hits = {} THEN 0 ELSE CHOOSE i \in hits : \A j \in hits : i <= j

PortOf(s) == DigitsVal(SubSeq(s, PortMatch(s) + 1, Len(s)), 0)

\* Index of the closing quote of a name opened at s[i..i+1] = ("  , or 0.
NameEnd(s, i) ==
    LET qs == {q \in (i + 2)..Len(s) : s[q] = Quote}
    IN  IF qs = {} THEN 0 ELSE CHOOSE q \in qs : \A r \in qs : q <= r

\* The pattern \("([^"]+)",pid=(\d+) matches at index i of s.
ProcAt(s, i) ==
    /\ i + 1 <= Len(s)
    /\ s[i] = "(" /\ s[i + 1] = Quote
    /\ LET q == NameEnd(s, i)
       IN  /\ q > i + 2
           /\ q + 6 <= Len(s)
           /\ SubSeq(s, q + 1, q + 5) = Chars(",pid=")
           /\ IsDigit(s[q + 6])

\* re.search of that pattern: 0 when there is no match, otherwise the
\* leftmost index at which it matches.
ProcMatch(s) ==
    LET hits == {i \in 1..Len(s) : ProcAt(s, i)}
    IN  IF hits = {} THEN 0 ELSE CHOOSE i \in hits : \A j \in hits : i <= j

ProcName(s) ==
    LET i == ProcMatch(s) IN SubSeq(s, i + 2, NameEnd(s, i) - 1)

ProcPid(s) ==
    LET i == ProcMatch(s)
        d == NameEnd(s, i) + 6
        last == CHOOSE m \in d..Len(s) :
                    /\ \A k \in d..m : IsDigit(s[k])
                    /\ (m = Len(s) \/ ~IsDigit(s[m + 1]))
    IN  SubSeq(s, d, last)

Entry(proto, port, pid, process) ==
    [proto |-> proto, port |-> port, pid |-> pid, process |-> process]

\* One line of lsof output (body of the for loops of scan_macos).
LsofLine(proto, line) ==
    LET cols == SplitWs(line)
    IN  IF Len(cols) < 9 THEN <<>>
        ELSE IF PortMatch(cols[9]) = 0 THEN <<>>
        ELSE <<Entry(proto, PortOf(cols[9]), cols[2], cols[1])>>

\* First column carrying the process annotation, or 0 (inner loop, break).
FirstProcCol(cols) ==
    LET hits == {c \in 1..Len(cols) : ProcMatch(cols[c]) # 0}
    IN  IF hits = {} THEN 0 ELSE CHOOSE c \in hits : \A d \in hits : c <= d

\* One line of ss output (body of the inner for loop of scan_linux).
SsLine(proto, line) ==
    LET cols == SplitWs(line)
    IN  IF Len(cols) < 5 THEN <<>>
        ELSE IF PortMatch(cols[4]) = 0 THEN <<>>
        ELSE LET c == FirstProcCol(cols)
                 pid_str == IF c = 0 THEN <<>> ELSE ProcPid(cols[c])
                 proc_str == IF c = 0 THEN <<>> ELSE ProcName(cols[c])
             IN  <<Entry(proto, PortOf(cols[4]),
                         IF pid_str # <<>> THEN pid_str ELSE Chars("-"),
                         IF proc_str # <<>> THEN proc_str ELSE Chars("-"))>>

RECURSIVE LsofEntries(_, _)
\* The for loop of a try block of scan_macos over the data lines.
LsofEntries(proto, ls) ==
    IF ls = <<>> THEN <<>>
    ELSE LsofLine(proto, Head(ls)) \o LsofEntries(proto, Tail(ls))

RECURSIVE SsEntries(_, _)
\* The inner for loop of scan_linux over the data lines.
SsEntries(proto, ls) ==
    IF ls = <<>> THEN <<>>
    ELSE SsLine(proto, Head(ls)) \o SsEntries(proto, Tail(ls))

\* Entries appended by one invocation of cmd that returned output.
Normalize(cmd, proto, output) ==
    IF cmd = "lsof" THEN LsofEntries(proto, DataLines(output))
    ELSE SsEntries(proto, DataLines(output))

\* ----------------------------------------------------------- filter_ports
\* Variant: the lower bound is compared strictly.
InRangeStrictLow(e, lo, hi) == lo < e.port /\ e.port <= hi

InRange(e, lo, hi) == lo <= e.port /\ e.port <= hi

\* The list comprehension, taken only when both bounds are set.
RangeFilter(es, o) ==
    IF o.range_start # None /\ o.range_end # None
    THEN SelectSeq(es, LAMBDA e : InRange(e, o.range_start[1], o.range_end[1]))
    ELSE es

\* Variant: the process name is part of the key.
DedupKeyWithProcess(e) == <<e.proto, e.port, e.pid, e.process>>

\* Variant: the pid is missing from the key.
DedupKeyWithoutPid(e) == <<e.proto, e.port>>

DedupKey(e) == <<e.proto, e.port, e.pid>>

RECURSIVE DedupLoop(_, _, _)
\* The loop over entries with its seen set; the first occurrence is kept.
DedupLoop(es, seen, unique) ==
    IF es = <<>> THEN unique
    ELSE LET e == Head(es)
         IN  IF DedupKey(e) \in seen
             THEN DedupLoop(Tail(es), seen, unique)
             ELSE DedupLoop(Tail(es), seen \cup {DedupKey(e)},
                            Append(unique, e))

RECURSIVE DedupLoopPrepend(_, _, _)
DedupLoopPrepend(es, seen, unique) ==
    IF es = <<>> THEN unique
    ELSE LET e == Head(es)
         IN  IF DedupKey(e) \in seen
             THEN DedupLoopPrepend(Tail(es), seen, unique)
             ELSE DedupLoopPrepend(Tail(es), seen \cup {DedupKey(e)},
                                   <<e>> \o unique)

\* Variant: unique.insert(0, e) in place of unique.append(e).
DedupPrepend(es) == DedupLoopPrepend(es, {}, <<>>)

Dedup(es) == DedupLoop(es, {}, <<>>)

\* Python's < on the two protocol strings.
StrLess(a, b) == a = "TCP" /\ b = "UDP"

\* Variant: the sort key is the port alone.
KeyLessPortOnly(a, b) == a.port < b.port

\* Tuple comparison of the sort keys (e["port"], e["proto"]).
KeyLess(a, b) ==
    \/ a.port < b.port
    \/ a.port = b.port /\ StrLess(a.proto, b.proto)

\* Insert e behind every element whose key is not greater than its own.
Insert(sorted, e) ==
    LET after == {k \in 1..Len(sorted) : KeyLess(e, sorted[k])}
        at == IF after = {} THEN Len(sorted) + 1
              ELSE CHOOSE k \in after : \A m \in after : k <= m
    IN  SubSeq(sorted, 1, at - 1) \o <<e>> \o SubSeq(sorted, at, Len(sorted))

RECURSIVE SortLoop(_, _)
SortLoop(es, sorted) ==
    IF es = <<>> THEN sorted
    ELSE SortLoop(Tail(es), Insert(sorted, Head(es)))

\* list.sort(key=...): a stable sort.
StableSort(es) == SortLoop(es, <<>>)

filter_ports(es, o) == StableSort(Dedup(RangeFilter(es, o)))

\* --------------------------------------------------------------- renderer
Spaces(n) == [i \in 1..n |-> " "]

\* Format specs <w and >w: pad, never truncate.
Ljust(s, w) == IF Len(s) >= w THEN s ELSE s \o Spaces(w - Len(s))

Rjust(s, w) == IF Len(s) >= w THEN s ELSE Spaces(w - Len(s)) \o s

RECURSIVE NatToStr(_)
NatToStr(n) ==
    IF n < 10 THEN <<Digits[n + 1]>>
    ELSE NatToStr(n \div 10) \o <<Digits[(n % 10) + 1]>>

\* str() of an int as the formatters apply it to a port.
IntToStr(n) == IF n < 0 THEN <<"-">> \o NatToStr(0 - n) ELSE NatToStr(n)

TextRow(proto, port, pid, process) ==
    Ljust(proto, 6) \o Chars(" ") \o Rjust(port, 6) \o Chars("  ")
        \o Rjust(pid, 8) \o Chars("  ") \o process

TextHeader == TextRow(Chars("Proto"), Chars("Port"), Chars("PID"),
                      Chars("Process"))

TextSep == [i \in 1..50 |-> "-"]

\* format_text, as the list of lines that are joined by newlines.
format_text(es) ==
    <<TextHeader, TextSep>>
        \o [k \in 1..Len(es) |->
               TextRow(Chars(es[k].proto), IntToStr(es[k].port),
                       es[k].pid, es[k].process)]
        \o (IF es = <<>> THEN <<Chars("(no listening ports found)")>>
            ELSE <<>>)

RECURSIVE JsonEscape(_)
\* Escapes json.dumps applies to the characters that occur here.
JsonEscape(s) ==
    IF s = <<>> THEN <<>>
    ELSE (IF Head(s) = Quote \/ Head(s) = "\\" THEN <<"\\", Head(s)>>
          ELSE <<Head(s)>>) \o JsonEscape(Tail(s))

JsonStr(s) == <<Quote>> \o JsonEscape(s) \o <<Quote>>

JsonEntry(e, last) ==
    << Spaces(4) \o Chars("{"),
       Spaces(6) \o JsonStr(Chars("proto")) \o Chars(": ")
           \o JsonStr(Chars(e.proto)) \o Chars(","),
       Spaces(6) \o JsonStr(Chars("port")) \o Chars(": ")
           \o IntToStr(e.port) \o Chars(","),
       Spaces(6) \o JsonStr(Chars("pid")) \o Chars(": ")
           \o JsonStr(e.pid) \o Chars(","),
       Spaces(6) \o JsonStr(Chars("process")) \o Chars(": ")
           \o JsonStr(e.process),
       Spaces(4) \o (IF last THEN Chars("}") ELSE Chars("},")) >>

RECURSIVE JsonEntries(_)
JsonEntries(es) ==
    IF es = <<>> THEN <<>>
    ELSE JsonEntry(Head(es), Len(es) = 1) \o JsonEntries(Tail(es))

\* format_json, json.dumps(..., indent=2), as the list of its lines.
format_json(es) ==
    IF es = <<>>
    THEN <<Chars("{"), Spaces(2) \o JsonStr(Chars("ports")) \o Chars(": []"),
           Chars("}")>>
    ELSE <<Chars("{"), Spaces(2) \o JsonStr(Chars("ports")) \o Chars(": [")>>
         \o JsonEntries(es) \o <<Spaces(2) \o Chars("]"), Chars("}")>>

\* ------------------------------------------------------------ input space
\* All sequences over S of length at most n.
SeqsUpTo(S, n) == UNION {[1..k -> S] : k \in 0..n}

Tokens ==
    {HELP, COMMON, RANGE, FORMAT, TEXT, JSON, Chars("--bogus"),
     Chars("53-443"),
     Chars("abc-10"), Chars("10-"), Chars("5"), Chars("1-2-3")}

ArgvSet == SeqsUpTo(Tokens, MaxArgs)

\* Values platform.system() may return.
Systems == {"Darwin", "Linux", "Windows"}

SsHeader ==
    Chars("State Recv-Q Send-Q Local Address:Port Peer Address:Port Process")

SsSamples ==
    {Chars("LISTEN 0 128 0.0.0.0:443 0.0.0.0:* users:((\"nginx\",pid=99,fd=6))"),
     Chars("UNCONN 0 0 127.0.0.1:0 0.0.0.0:*"),
     Chars("LISTEN 0 128 *:70000 *:* users:((\"node\",pid=7,fd=3))"),
     Chars("UNCONN 0 0 0.0.0.0:* 0.0.0.0:*"),
     Chars("LISTEN 0 128")}

LsofHeader == Chars("COMMAND PID USER FD TYPE DEVICE SIZE/OFF NODE NAME")

LsofSamples ==
    {Chars("nginx 99 root 6u IPv4 0x1 0t0 TCP *:443 (LISTEN)"),
     Chars("node 7 me 22u IPv6 0x2 0t0 TCP [::1]:0"),
     Chars("node 7 me 23u IPv4 0x3 0t0 UDP *:70000"),
     Chars("mDNS 201 me 6u IPv4 0x4 0t0 UDP *:*"),
     Chars("lsof: WARNING")}

\* What a utility may print: nothing, or its header and some lines.
Outputs(header, samples) ==
    {<<>>} \cup {<<header>> \o body : body \in SeqsUpTo(samples, MaxLines)}

\* How subprocess.run may end: with output, or with one of the two
\* exceptions the scanners catch.
Ran(output) == [kind |-> "ok", output |-> output]

Failed(exc) == [kind |-> exc, output |-> <<>>]

Failures == {Failed("TimeoutExpired"), Failed("FileNotFoundError")}

SsOutcomes == {Ran(o) : o \in Outputs(SsHeader, SsSamples)} \cup Failures

LsofOutcomes == {Ran(o) : o \in Outputs(LsofHeader, LsofSamples)} \cup Failures

\* ---------------------------------------------------------- the program run
Init ==
    /\ argv \in ArgvSet
    /\ system \in Systems
    /\ pc = "parse_args"
    /\ opts = DefaultOpts
    /\ entries = <<>>
    /\ result = <<>>
    /\ stdout = <<>>
    /\ stderr = <<>>
    /\ status = None
    /\ termination = "running"
    /\ calls = <<>>
    /\ permuted = <<>>
    /\ resultPermuted = <<>>
    /\ resultTwice = <<>>

\* The process ends: what was printed, the exit status and the way out.
Terminate(out, err, code, how) ==
    /\ stdout' = stdout \o out
    /\ stderr' = stderr \o err
    /\ status' = Some(code)
    /\ termination' = how
    /\ pc' = "done"

\* main: opts = parse_args(sys.argv[1:])
ParseArgs ==
    /\ pc = "parse_args"
    /\ LET r == parse_args(argv)
       IN  IF r.kind = "return"
           THEN /\ opts' = r.opts
                /\ pc' = "scan_ports"
                /\ UNCHANGED <<stdout, stderr, status, termination>>
           ELSE /\ Terminate(r.out, r.err, r.code, r.kind)
                /\ UNCHANGED opts
    /\ UNCHANGED <<argv, system, entries, result, calls, permuted,
                   resultPermuted, resultTwice>>

\* scan_ports: the dispatch on platform.system().
ScanPorts ==
    /\ pc = "scan_ports"
    /\ IF system = "Darwin"
       THEN /\ pc' = "scan_macos_tcp"
            /\ UNCHANGED <<stdout, stderr, status, termination>>
       ELSE IF system = "Linux"
       THEN /\ pc' = "scan_linux_tcp"
            /\ UNCHANGED <<stdout, stderr, status, termination>>
       ELSE Terminate(<<>>, <<<<"Unsupported platform: ", system>>>>, 1,
                      "sys.exit")
    /\ UNCHANGED <<argv, system, opts, entries, result, calls, permuted,
                   resultPermuted, resultTwice>>

\* Normalize tabulated over the outputs the utilities may print, so that
\* each output is parsed once.
Normalized ==
    [cmd \in {"lsof", "ss"} |->
        [proto \in {"TCP", "UDP"} |->
            [output \in (IF cmd = "lsof" THEN Outputs(LsofHeader, LsofSamples)
                          ELSE Outputs(SsHeader, SsSamples)) |->
                Normalize(cmd, proto, output)]]]

\* One subprocess.run with its try/except: the entries it appends.
Appended(cmd, proto, outcome) ==
    IF outcome.kind = "ok" THEN Normalized[cmd][proto][outcome.output]
    ELSE <<>>

Call(cmd, proto, outcome, got) ==
    [cmd |-> cmd, proto |-> proto, kind |-> outcome.kind, got |-> got]

\* Where scan_macos goes after its first try block.
MacosAfterTcp(outcome) == "scan_macos_udp"

\* Variant: the try statement encloses the loop, so a failure leaves it.
LinuxAfterTcpLeaveLoop(outcome) ==
    IF outcome.kind = "ok" THEN "scan_linux_udp" ELSE "filter_ports"

\* Where scan_linux goes after the TCP iteration of its loop.
LinuxAfterTcp(outcome) == "scan_linux_udp"

\* The state change of one invocation: entries grows, the call is logged.
Scanned(cmd, proto, outcome, next) ==
    /\ LET got == Appended(cmd, proto, outcome)
       IN  /\ entries' = entries \o got
           /\ calls' = Append(calls, Call(cmd, proto, outcome, got))
    /\ pc' = next
    /\ UNCHANGED <<argv, system, opts, result, stdout, stderr, status,
                   termination, permuted, resultPermuted, resultTwice>>

\* scan_macos, first try block: lsof -i -P -n -sTCP:LISTEN
ScanMacosTcp ==
    /\ pc = "scan_macos_tcp"
    /\ \E outcome \in LsofOutcomes :
          Scanned("lsof", "TCP", outcome,
                  MacosAfterTcp(outcome))

\* scan_macos, second try block: lsof -iUDP -P -n, then return entries
ScanMacosUdp ==
    /\ pc = "scan_macos_udp"
    /\ \E outcome \in LsofOutcomes :
          Scanned("lsof", "UDP", outcome, "filter_ports")

\* scan_linux, loop iteration ("TCP", "-tlnp")
ScanLinuxTcp ==
    /\ pc = "scan_linux_tcp"
    /\ \E outcome \in SsOutcomes :
          Scanned("ss", "TCP", outcome, LinuxAfterTcp(outcome))

\* scan_linux, loop iteration ("UDP", "-ulnp"), then return entries
ScanLinuxUdp ==
    /\ pc = "scan_linux_udp"
    /\ \E outcome \in SsOutcomes :
          Scanned("ss", "UDP", outcome, "filter_ports")

\* main: entries = filter_ports(entries, opts).  The scanned list stays in
\* entries and the filtered one goes to result, so that both can be compared.
FilterPorts ==
    /\ pc = "filter_ports"
    /\ result' = filter_ports(entries, opts)
    /\ pc' = "render"
    /\ UNCHANGED <<argv, system, opts, entries, stdout, stderr, status,
                   termination, calls, permuted, resultPermuted, resultTwice>>

\* main: print(format_json(entries)) or print(format_text(entries)), and the
\* interpreter leaves with status 0.
Render ==
    /\ pc = "render"
    /\ Terminate(IF opts.format = JSON THEN format_json(result)
                 ELSE format_text(result),
                 <<>>, 0, "return")
    /\ UNCHANGED <<argv, system, opts, entries, result, calls, permuted,
                   resultPermuted, resultTwice>>

Next ==
    \/ ParseArgs
    \/ ScanPorts
    \/ ScanMacosTcp
    \/ ScanMacosUdp
    \/ ScanLinuxTcp
    \/ ScanLinuxUdp
    \/ FilterPorts
    \/ Render

Spec == Init /\ [][Next]_vars

\* ------------------------------------------- filter_ports on its own inputs
\* filter_ports is a pure function of (entries, opts).  This second
\* specification draws an entry list, one of its permutations and the
\* options from bounded sets and applies filter_ports to them.
EntryUniverse ==
    {Entry("TCP", 443, Chars("99"), Chars("nginx")),
     Entry("TCP", 443, Chars("99"), Chars("httpd")),
     Entry("TCP", 443, Chars("7"), Chars("node")),
     Entry("UDP", 443, Chars("99"), Chars("nginx")),
     Entry("UDP", 53, Chars("-"), Chars("-")),
     Entry("TCP", 8080, Chars("7"), Chars("node"))}

\* Options as parse_args returns them for some valid command lines.
OptsSamples ==
    {parse_args(av).opts :
        av \in {<<>>, <<COMMON>>, <<RANGE, Chars("53-443")>>,
                <<RANGE, Chars("443-8080")>>, <<RANGE, Chars("8080-53")>>}}

Perms(es) ==
    LET n == Len(es)
        bij == {f \in [1..n -> 1..n] : \A a, b \in 1..n : a # b => f[a] # f[b]}
    IN  {[k \in 1..n |-> es[f[k]]] : f \in bij}

FilterInit ==
    /\ entries \in SeqsUpTo(EntryUniverse, MaxLen)
    /\ permuted \in Perms(entries)
    /\ opts \in OptsSamples
    /\ pc = "list"
    /\ result = <<>>
    /\ resultPermuted = <<>>
    /\ resultTwice = <<>>
    /\ argv = <<>>
    /\ system = "Linux"
    /\ stdout = <<>>
    /\ stderr = <<>>
    /\ status = None
    /\ termination = "running"
    /\ calls = <<>>

\* filter_ports(entries, opts)
FilterList ==
    /\ pc = "list"
    /\ result' = filter_ports(entries, opts)
    /\ pc' = "permuted"
    /\ UNCHANGED <<argv, system, opts, entries, stdout, stderr, status,
                   termination, calls, permuted, resultPermuted, resultTwice>>

\* filter_ports(permuted, opts), the same entries delivered in another order
FilterPermuted ==
    /\ pc = "permuted"
    /\ resultPermuted' = filter_ports(permuted, opts)
    /\ pc' = "again"
    /\ UNCHANGED <<argv, system, opts, entries, stdout, stderr, status,
                   termination, calls, permuted, result, resultTwice>>

\* filter_ports(filter_ports(entries, opts), opts)
FilterAgain ==
    /\ pc = "again"
    /\ resultTwice' = filter_ports(result, opts)
    /\ pc' = "applied"
    /\ UNCHANGED <<argv, system, opts, entries, stdout, stderr, status,
                   termination, calls, permuted, result, resultPermuted>>

FilterNext ==
    \/ FilterList
    \/ FilterPermuted
    \/ FilterAgain

FilterSpec == FilterInit /\ [][FilterNext]_vars

\* ------------------------------------------------------------- properties
Applied == pc \in {"permuted", "again", "applied"}

HasRange == opts.range_start # None /\ opts.range_end # None

Lo == opts.range_start[1]

Hi == opts.range_end[1]

Triple(e) == <<e.proto, e.port, e.pid>>

Triples(es) == {Triple(es[k]) : k \in 1..Len(es)}

\* C1: filter_ports returns only entries with lo <= port <= hi when a range
\* is set, and every input entry that is in the range (every input entry
\* when no range is set) is represented in the result by an entry with the
\* same (proto, port, pid).
C1_RangeFilter ==
    Applied =>
        /\ HasRange =>
              \A k \in 1..Len(result) :
                  Lo <= result[k].port /\ result[k].port <= Hi
        /\ \A k \in 1..Len(entries) :
              (HasRange => Lo <= entries[k].port /\ entries[k].port <= Hi)
                  => Triple(entries[k]) \in Triples(result)

\* A range was applied that drops one entry and keeps entries sitting on
\* both of its bounds.
C1_Witness ==
    /\ Applied /\ HasRange
    /\ \E k \in 1..Len(entries) : entries[k].port < Lo \/ entries[k].port > Hi
    /\ \E k \in 1..Len(result) : result[k].port = Lo
    /\ \E k \in 1..Len(result) : result[k].port = Hi
    /\ Lo < Hi

\* C2: the result of filter_ports holds no two entries with the same
\* (proto, port, pid): entries that differ only in process name collapse
\* to one.
C2_UniqueTriples ==
    Applied =>
        \A i, j \in 1..Len(result) :
            Triple(result[i]) = Triple(result[j]) => i = j

\* Two input entries share the triple and differ in process name, and that
\* triple made it to the result.
C2_Witness ==
    /\ Applied
    /\ \E i, j \in 1..Len(entries) :
          /\ Triple(entries[i]) = Triple(entries[j])
          /\ entries[i].process # entries[j].process
          /\ Triple(entries[i]) \in Triples(result)

\* C3: the list returned by filter_ports is sorted ascending by port, and
\* entries with the same port have TCP before UDP.
C3_Sorted ==
    Applied =>
        \A i, j \in 1..Len(result) :
            i < j =>
                /\ result[i].port <= result[j].port
                /\ result[i].port = result[j].port
                      => ~(result[i].proto = "UDP" /\ result[j].proto = "TCP")

\* The input had a UDP entry ahead of a TCP entry of the same port and a
\* larger port ahead of a smaller one, and all of them are in the result.
C3_Witness ==
    /\ Applied
    /\ \E i, j \in 1..Len(entries) :
          /\ i < j
          /\ entries[i].port = entries[j].port
          /\ entries[i].proto = "UDP" /\ entries[j].proto = "TCP"
          /\ Triple(entries[i]) \in Triples(result)
          /\ Triple(entries[j]) \in Triples(result)
    /\ \E i, j \in 1..Len(entries) :
          /\ i < j
          /\ entries[i].port > entries[j].port
          /\ Triple(entries[i]) \in Triples(result)
          /\ Triple(entries[j]) \in Triples(result)

BothApplied == pc \in {"again", "applied"}

\* C4 as stated: for two permutations of the same entry list and the same
\* range, filter_ports returns the identical list.
C4_SameList == BothApplied => resultPermuted = result

SortKeys(es) == [k \in 1..Len(es) |-> <<es[k].port, es[k].proto>>]

\* C4 as amended: for two permutations of the same entry list and the same
\* range, filter_ports returns lists with the same set of
\* (proto, port, pid) triples and the same sequence of (port, proto) sort
\* keys; which process name a triple keeps, and the relative order of the
\* entries that share port and protocol, follow the input order.
C4_SameTriplesAndKeys ==
    BothApplied =>
        /\ Triples(resultPermuted) = Triples(result)
        /\ SortKeys(resultPermuted) = SortKeys(result)

\* The two orders of delivery differ, and so do the two results.
C4_Witness ==
    /\ BothApplied
    /\ permuted # entries
    /\ resultPermuted # result
    /\ Len(result) >= 2

\* C10: filter_ports is idempotent: applying it to its own result with the
\* same range setting gives that result again, as a list.
C10_Idempotent == pc = "applied" => resultTwice = result

\* The first application, under a range, dropped an entry and reordered
\* what was left; the second one was applied to that result.
C10_Witness ==
    /\ pc = "applied"
    /\ HasRange
    /\ Len(entries) > Len(result)
    /\ Len(result) >= 2
    /\ result # Dedup(RangeFilter(entries, opts))
    /\ resultTwice = result

\* A --range value as the command line documents it: two parts around one
\* dash, each of them an integer.
WellFormedRange(v) ==
    LET parts == Split(v, "-")
    IN  Len(parts) = 2 /\ IntOk(parts[1]) /\ IntOk(parts[2])

RECURSIVE ValidOptions(_)
\* av is a sequence of complete, valid options other than --help.
ValidOptions(av) ==
    IF av = <<>> THEN TRUE
    ELSE IF Head(av) = COMMON THEN ValidOptions(Tail(av))
    ELSE IF Head(av) = RANGE
    THEN Len(av) >= 2 /\ WellFormedRange(av[2])
            /\ ValidOptions(SubSeq(av, 3, Len(av)))
    ELSE IF Head(av) = FORMAT
    THEN Len(av) >= 2 /\ av[2] \in {TEXT, JSON}
            /\ ValidOptions(SubSeq(av, 3, Len(av)))
    ELSE FALSE

\* The argument at index k is read as an option: all before it are valid.
OptionAt(k) == k \in 1..Len(argv) /\ ValidOptions(SubSeq(argv, 1, k - 1))

\* The run reads a --range option whose value is malformed.
MalformedRangeRead ==
    \E k \in 1..(Len(argv) - 1) :
        OptionAt(k) /\ argv[k] = RANGE /\ ~WellFormedRange(argv[k + 1])

\* The run reads an option that is a usage error.
UsageErrorRead ==
    \E k \in 1..Len(argv) :
        /\ OptionAt(k)
        /\ \/ argv[k] \notin {HELP, COMMON, RANGE, FORMAT}
           \/ argv[k] \in {RANGE, FORMAT} /\ k = Len(argv)
           \/ argv[k] = RANGE /\ k < Len(argv) /\ ~WellFormedRange(argv[k + 1])
           \/ argv[k] = FORMAT /\ k < Len(argv) /\ argv[k + 1] \notin {TEXT, JSON}

\* The left-to-right scan reaches --help as an option.
HelpRead == \E k \in 1..Len(argv) : OptionAt(k) /\ argv[k] = HELP

HelpGiven == \E k \in 1..Len(argv) : argv[k] = HELP

Supported == system \in {"Darwin", "Linux"}

ScanFinished == pc \in {"filter_ports", "render"} \/ (pc = "done" /\ calls # <<>>)

\* C5: every entry produced by scan_linux and scan_macos has a port in
\* 1..65535; a line whose address ends in a port outside it yields no entry.
C5_PortInRange ==
    \A k \in 1..Len(entries) : entries[k].port \in 1..65535

\* C6: a malformed --range value ends the run as a usage error: a message
\* on the error stream, exit status 1, through the program's own usage
\* error exit, and before any enumeration.
C6_MalformedRangeIsUsageError ==
    MalformedRangeRead =>
        /\ calls = <<>>
        /\ pc = "done" =>
              /\ termination = "sys.exit"
              /\ status = Some(1)
              /\ stderr # <<>>

\* C7 as stated: whenever --help occurs anywhere in the argument list the
\* run prints the usage text to standard output, exits with status 0 and
\* invokes no enumeration, whatever the other arguments are.
C7_HelpAnywhere ==
    HelpGiven =>
        /\ calls = <<>>
        /\ pc = "done" =>
              /\ status = Some(0)
              /\ stdout = usage
              /\ stderr = <<>>

\* C7 as amended: whenever --help is reached by the left-to-right scan of
\* the arguments, that is when every argument before it is a valid option
\* (or the value of one), the run prints the usage text to standard output,
\* exits with status 0 and invokes no enumeration; no argument after --help,
\* valid or invalid, changes that outcome.
C7_HelpWhenRead ==
    HelpRead =>
        /\ calls = <<>>
        /\ pc # "parse_args" =>
              /\ pc = "done"
              /\ termination = "sys.exit"
              /\ status = Some(0)
              /\ stdout = usage
              /\ stderr = <<>>
              /\ opts = DefaultOpts

\* --help came after a valid option and ahead of an invalid argument, and
\* the run ended with the usage text and status 0.
C7_Witness ==
    /\ pc = "done"
    /\ Len(argv) = 3
    /\ argv[1] = COMMON /\ argv[2] = HELP /\ argv[3] = Chars("--bogus")
    /\ status = Some(0)
    /\ stdout = usage

\* C8: with valid arguments on a supported platform, a timeout or a missing
\* utility in the call for one protocol contributes no entry for that
\* protocol and nothing else: both calls are issued once each, TCP then
\* UDP, the entries of the other call are kept as they were, and the run
\* renders and exits with status 0.
C8_FailureIsEmptyResult ==
    (ScanFinished /\ \E c \in 1..Len(calls) : calls[c].kind # "ok") =>
        /\ Len(calls) = 2
        /\ calls[1].proto = "TCP" /\ calls[2].proto = "UDP"
        /\ \A c \in 1..2 : calls[c].kind # "ok" => calls[c].got = <<>>
        /\ entries = calls[1].got \o calls[2].got
        /\ pc = "done" =>
              /\ termination = "return"
              /\ status = Some(0)
              /\ stdout # <<>>
              /\ stderr = <<>>
              /\ Triples(result) \subseteq Triples(entries)

\* The TCP call failed, the UDP call delivered entries, and the run
\* rendered them and exited with status 0.
C8_Witness ==
    /\ pc = "done"
    /\ Len(calls) = 2
    /\ calls[1].kind \in {"TimeoutExpired", "FileNotFoundError"}
    /\ calls[2].kind = "ok"
    /\ calls[2].got # <<>>
    /\ entries = calls[2].got
    /\ result # <<>>
    /\ status = Some(0)

\* C9: in every run that ends with a usage error the exit status is 1,
\* nothing has been written to standard output and no enumeration was
\* invoked.
C9_UsageErrorBeforeScan ==
    UsageErrorRead =>
        /\ calls = <<>>
        /\ stdout = <<>>
        /\ pc # "parse_args" =>
              /\ pc = "done"
              /\ status = Some(1)

\* A valid option was followed by an unknown one, and the run ended with
\* status 1 and a message on the error stream only.
C9_Witness ==
    /\ pc = "done"
    /\ UsageErrorRead
    /\ Len(argv) >= 2
    /\ argv[1] = COMMON
    /\ argv[2] \notin {HELP, COMMON, RANGE, FORMAT}
    /\ status = Some(1)
    /\ stderr # <<>>

====
